---- MODULE Spec2Model ----
(***************************************************************************)
(* Model of src/script.js: the interactive moving-web background (a grid   *)
(* of points on a canvas, driven by requestAnimationFrame and by resize,   *)
(* mousemove, mouseout/mouseleave and scroll events) and the mobile-menu   *)
(* toggle wired at the end of the same IIFE.                               *)
(*                                                                         *)
(* JavaScript values that may be null are encoded as sequences of length   *)
(* at most one: <<>> is null, <<v>> is the number v.                       *)
(***************************************************************************)
EXTENDS Integers, Sequences, FiniteSets, TLC

VARIABLES
    canvas,          \* environment: does #interactive-bg exist (line 4)
    menuEls,         \* environment: do .mobile-menu, .mobile-toggle, .mobile-drawer all exist
    clock,           \* environment: the value Date.now() returns, in ms
    width, height,   \* lines 8-9
    cols, rows,      \* lines 11-12
    points,          \* line 10
    mouse,           \* line 15
    lastScrollTime,  \* line 169
    frameCount,      \* line 174
    listeners,       \* event types with a listener registered on window (lines 164-172)
    rafPending,      \* number of animate callbacks requested and not yet fired
    error,           \* an uncaught exception left the IIFE
    menuWired,       \* the click handlers of lines 186-197 are registered
    menuOpen,        \* class "open" on .mobile-menu
    ariaExpanded,    \* attribute aria-expanded of .mobile-toggle ("unset" before any write)
    ariaHidden,      \* attribute aria-hidden of .mobile-drawer
    pass,            \* history: what the step just taken did, if it was a call of animate
    trace,           \* history: the last (at most TraceLen) calls of animate
    sinceScroll,     \* history: calls of animate since the last scroll event
    lastPointer,     \* history: the most recent pointer event
    lastClick,       \* history: the most recent click on the toggle or on a drawer link
    before,          \* history: points as the last call of update found them (<<>>: none yet)
    jitter           \* history: the two Math.random() values the last call of update drew

vars == <<canvas, menuEls, clock, width, height, cols, rows, points, mouse,
          lastScrollTime, frameCount, listeners, rafPending, error, menuWired,
          menuOpen, ariaExpanded, ariaHidden, pass, trace, sinceScroll,
          lastPointer, lastClick, before, jitter>>

engineVars == <<width, height, cols, rows, points, mouse, lastScrollTime,
                frameCount, listeners, rafPending, error>>
menuVars == <<menuWired, menuOpen, ariaExpanded, ariaHidden, lastClick>>
gridVars == <<width, height, cols, rows, points>>
physVars == <<before, jitter>>

---------------------------------------------------------------------------
(* Program constants *)

spacing == 100
maxDist == 180
ScrollWindow == 160
ScrollSkip == 3

(* Bounds of the model *)

MaxWidth == 250      \* largest viewport width a resize may report
MaxHeight == 150     \* largest viewport height
WideWidth == 800     \* the widest viewport of the grid specification
WideHeight == 600
MaxFrames == 8       \* calls of animate explored
StartTime == 1000    \* Date.now() when the script runs
TickStep == 80       \* ms by which the clock advances in one step
MaxTicks == 2        \* clock steps explored
MaxClientX == 40     \* pointer event coordinates
MaxClientY == 30
OriginLeft == 8      \* canvas.getBoundingClientRect() origin when not at (0,0)
OriginTop == 5

\* viewports of the interleaving specifications, and those of the grid specification
Viewports == {<<0, 0>>, <<MaxWidth, MaxHeight>>}
GridWidths == {0, 1, spacing - 1, spacing, spacing + 1, MaxWidth, WideWidth}
GridHeights == {0, 1, spacing, spacing + 1, MaxHeight, WideHeight}
GridViewports == GridWidths \X GridHeights
PointerEvents == {[clientX |-> MaxClientX, clientY |-> MaxClientY]}
SurfaceOrigins == {[left |-> 0, top |-> 0], [left |-> OriginLeft, top |-> OriginTop]}
MaxTime == StartTime + MaxTicks * TickStep

Null == <<>>
Num(v) == <<v>>

---------------------------------------------------------------------------
(* Grid generator: resize (lines 20-26), initPoints (lines 28-48), idx *)

\* Math.ceil(a / b) for a >= 0, b > 0
Ceil(a, b) == IF a % b = 0 THEN a \div b ELSE (a \div b) + 1

\* mutant: Math.floor in place of Math.ceil
colCountFloor(w) == (w \div spacing) + 1

colCount(w) == Ceil(w, spacing) + 1
rowCount(h) == Ceil(h, spacing) + 1

\* the object pushed at lines 36-45; the position and velocity fields are
\* modelled by NewPointNum below and left out of the grid model
NewPoint(i, j) == [col |-> i, row |-> j]

\* inner loop, lines 31-46: the points pushed, in order, by
\* for (j; j < r; j++) points.push(...)
RECURSIVE PushColumn(_, _, _)
PushColumn(i, j, r) ==
    IF j < r THEN <<NewPoint(i, j)>> \o PushColumn(i, j + 1, r) ELSE <<>>

\* outer loop, lines 30-47: for (i; i < c; i++), pushing onto pts
RECURSIVE PushGrid(_, _, _, _)
PushGrid(pts, i, c, r) ==
    IF i < c THEN PushGrid(pts \o PushColumn(i, 0, r), i + 1, c, r) ELSE pts

initPoints(c, r) == PushGrid(<<>>, 0, c, r)

\* idx(i, j) of line 50, with the row count it reads
idx(i, j, r) == i * r + j

\* points[n] of a JavaScript array: undefined (here <<>>) out of range
At(pts, n) == IF n >= 0 /\ n < Len(pts) THEN <<pts[n + 1]>> ELSE <<>>

---------------------------------------------------------------------------
(* Renderer: the neighbour set of draw (lines 109-120) *)

\* mutant: a symmetric neighbour set, with the left neighbour too
neighborsWithLeft(p, c, r) ==
    LET i == p.col
        j == p.row
    IN  (IF i + 1 < c THEN <<[n |-> i * r + r + j, col |-> i + 1, row |-> j]>> ELSE <<>>)
        \o (IF j + 1 < r THEN <<[n |-> i * r + j + 1, col |-> i, row |-> j + 1]>> ELSE <<>>)
        \o (IF i + 1 < c /\ j + 1 < r
            THEN <<[n |-> i * r + r + j + 1, col |-> i + 1, row |-> j + 1]>> ELSE <<>>)
        \o (IF i + 1 < c /\ j - 1 >= 0
            THEN <<[n |-> i * r + r + j - 1, col |-> i + 1, row |-> j - 1]>> ELSE <<>>)
        \o (IF i - 1 >= 0 THEN <<[n |-> i * r - r + j, col |-> i - 1, row |-> j]>> ELSE <<>>)

\* lines 112-116: the neighbour indices pushed for the point p, each with the
\* cell it is meant to be
neighbors(p, c, r) ==
    LET i == p.col
        j == p.row
    IN  (IF i + 1 < c THEN <<[n |-> idx(i + 1, j, r), col |-> i + 1, row |-> j]>> ELSE <<>>)
        \o (IF j + 1 < r THEN <<[n |-> idx(i, j + 1, r), col |-> i, row |-> j + 1]>> ELSE <<>>)
        \o (IF i + 1 < c /\ j + 1 < r
            THEN <<[n |-> idx(i + 1, j + 1, r), col |-> i + 1, row |-> j + 1]>> ELSE <<>>)
        \o (IF i + 1 < c /\ j - 1 >= 0
            THEN <<[n |-> idx(i + 1, j - 1, r), col |-> i + 1, row |-> j - 1]>> ELSE <<>>)

\* lines 97-139: the edges the pass considers, in order: for each k, each
\* neighbour n whose points[n] exists (line 120 skips the others)
RECURSIVE drawEdges(_, _, _, _)
drawEdges(pts, c, r, k) ==
    IF k >= Len(pts) THEN <<>>
    ELSE LET p == pts[k + 1]
             ns == neighbors(p, c, r)
             kept == SelectSeq(ns, LAMBDA e : At(pts, e.n) # <<>>)
         IN  [m \in 1..Len(kept) |-> [from |-> k, to |-> kept[m].n,
                                      col |-> kept[m].col, row |-> kept[m].row]]
             \o drawEdges(pts, c, r, k + 1)

\* line 142: the halo is drawn when mouse.x is not null
drawsHalo(m) == m.x # Null

---------------------------------------------------------------------------
(* Interaction tracker: onMove (lines 54-58), onLeave (lines 60-63) *)

onMove(e, rect) == [x |-> Num(e.clientX - rect.left), y |-> Num(e.clientY - rect.top)]

\* mutant: only mouse.x is cleared
onLeaveX == [x |-> Null, y |-> mouse.y]

onLeave == [x |-> Null, y |-> Null]

\* line 80: update applies the repulsion step to a point when mouse.x is not null
repels(m) == m.x # Null

---------------------------------------------------------------------------
(* Numbers: the positions and velocities are rationals [n, d], d > 0, in     *)
(* lowest terms; d = 0 stands for a non-finite result (0/0 is NaN).          *)

Abs(a) == IF a < 0 THEN -a ELSE a

RECURSIVE GCD(_, _)
GCD(a, b) == IF b = 0 THEN a ELSE GCD(b, a % b)

NaN == [n |-> 0, d |-> 0]

R(n, d) ==
    IF d = 0 THEN NaN
    ELSE LET g == GCD(Abs(n), Abs(d))
         IN  [n |-> (IF d < 0 THEN -n ELSE n) \div g, d |-> Abs(d) \div g]

I(n) == [n |-> n, d |-> 1]
Finite(a) == a.d # 0

RAdd(a, b) == IF a.d = 0 \/ b.d = 0 THEN NaN
              ELSE LET g == GCD(a.d, b.d)
                   IN  R(a.n * (b.d \div g) + b.n * (a.d \div g), (a.d \div g) * b.d)
RNeg(a) == [n |-> -a.n, d |-> a.d]
RSub(a, b) == RAdd(a, RNeg(b))
RMul(a, b) == IF a.d = 0 \/ b.d = 0 THEN NaN
              ELSE LET p == R(a.n, b.d)
                       q == R(b.n, a.d)
                   IN  [n |-> p.n * q.n, d |-> p.d * q.d]
\* a / b: 0/0 is NaN
RDiv(a, b) == IF a.d = 0 \/ b.d = 0 \/ b.n = 0 THEN NaN
              ELSE RMul(a, R(b.d, b.n))
RLt(a, b) == a.d # 0 /\ b.d # 0 /\ a.n * b.d < b.n * a.d
RAbs(a) == [n |-> Abs(a.n), d |-> a.d]
RSign(a) == IF a.n > 0 THEN 1 ELSE IF a.n < 0 THEN -1 ELSE 0

\* the integer square root, by bisection
RECURSIVE Bisect(_, _, _)
Bisect(n, lo, hi) ==
    IF hi - lo <= 1 THEN lo
    ELSE LET mid == (lo + hi) \div 2
         IN  IF mid * mid <= n THEN Bisect(n, mid, hi) ELSE Bisect(n, lo, mid)
ISqrt(n) == IF n < 2 THEN n ELSE Bisect(n, 1, (IF n < 40000 THEN n ELSE 40000))
IsSquare(a) == a.d # 0 /\ a.n >= 0 /\ ISqrt(a.n) * ISqrt(a.n) = a.n
                       /\ ISqrt(a.d) * ISqrt(a.d) = a.d
\* Math.sqrt, on the squares the specification samples
Sqrt(a) == IF a.d = 0 THEN NaN ELSE [n |-> ISqrt(a.n), d |-> ISqrt(a.d)]

\* Math.random() returns q/4 here, for q in 0..3
Randoms == {R(0, 4), R(1, 4), R(2, 4), R(3, 4)}
Half == R(1, 2)

---------------------------------------------------------------------------
(* Physics updater: update (lines 65-91), and the point of lines 33-45 *)

\* lines 33-45: the point created at cell (i, j) from four random draws
NewPointNum(i, j, r1, r2, r3, r4) ==
    LET stagger == IF j % 2 = 0 THEN I(0) ELSE R(spacing, 2)
        x == RAdd(RAdd(I(i * spacing), stagger), RSub(RMul(r1, I(12)), I(6)))
        y == RAdd(I(j * spacing), RSub(RMul(r2, I(12)), I(6)))
    IN  [x |-> x, y |-> y, ox |-> x, oy |-> y,
         vx |-> RMul(RSub(r3, Half), R(4, 100)),
         vy |-> RMul(RSub(r4, Half), R(4, 100)),
         col |-> i, row |-> j]

\* mutant: the pull points away from the rest position
restoringAway(o, x) == RMul(RSub(x, o), R(12, 100000))

\* lines 72-73: (p.ox - p.x) * 0.00012
restoring(o, x) == RMul(RSub(o, x), R(12, 100000))

\* lines 76-77: (Math.random() - 0.5) * 0.00008
jitterOf(r) == RMul(RSub(r, Half), R(8, 100000))

\* mutant: no guard on a zero distance
orOneMissing(s) == s

\* line 83: Math.sqrt(...) || 1
orOne(s) == IF s.d # 0 /\ s.n = 0 THEN I(1) ELSE s

\* lines 81-88: the force and the displacement of a point at (x, y) with the
\* pointer at (mx, my); no displacement when dist >= maxDist
repulsion(x, y, mx, my) ==
    LET dx == RSub(x, mx)
        dy == RSub(y, my)
        dist == orOne(Sqrt(RAdd(RMul(dx, dx), RMul(dy, dy))))
    IN  IF RLt(dist, I(maxDist))
        THEN LET force == RMul(RDiv(RSub(I(maxDist), dist), I(maxDist)), R(6, 10))
             IN  [dist |-> dist, applies |-> TRUE, force |-> force,
                  px |-> RMul(RMul(RDiv(dx, dist), force), R(9, 10)),
                  py |-> RMul(RMul(RDiv(dy, dist), force), R(9, 10))]
        ELSE [dist |-> dist, applies |-> FALSE, force |-> I(0), px |-> I(0), py |-> I(0)]

\* the body of the loop of update (lines 68-89) for one point
updatePoint(p, m, rx, ry) ==
    LET x1 == RAdd(p.x, p.vx)
        y1 == RAdd(p.y, p.vy)
        vx1 == RAdd(RAdd(p.vx, restoring(p.ox, x1)), jitterOf(rx))
        vy1 == RAdd(RAdd(p.vy, restoring(p.oy, y1)), jitterOf(ry))
    IN  IF repels(m)
        THEN LET f == repulsion(x1, y1, I(m.x[1]), I(m.y[1]))
             IN  [p EXCEPT !.x = RAdd(x1, f.px), !.y = RAdd(y1, f.py),
                           !.vx = vx1, !.vy = vy1]
        ELSE [p EXCEPT !.x = x1, !.y = y1, !.vx = vx1, !.vy = vy1]

\* lines 67-90: for (let p of points); every point draws its own random
\* numbers in the code, and the specification samples one point
update(pts, m, rx, ry) == [k \in 1..Len(pts) |-> updatePoint(pts[k], m, rx, ry)]

---------------------------------------------------------------------------
(* Frame scheduler: animate (lines 150-161) *)

\* line 154
Scrolling(now, last) == now - last < ScrollWindow

\* mutant: a skip factor of 2
skipTwo(scrolling) == IF scrolling THEN ScrollSkip - 1 ELSE 0

\* line 155
skip(scrolling) == IF scrolling THEN ScrollSkip ELSE 0

\* mutant: the cadence is off by one frame
runsPassNext(fc, scrolling) == (fc + 1) % (IF scrolling THEN ScrollSkip + 1 ELSE 1) = 0

\* line 156
runsPass(fc, scrolling) == fc % (skip(scrolling) + 1) = 0

\* mutant: the next frame is requested only when the pass ran
rerequestIfRan(ran) == IF ran THEN 1 ELSE 0

\* line 160: requestAnimationFrame(animate), whatever the pass did
rerequest(ran) == 1

NothingSeen == [n |-> 0, cols |-> 0, rows |-> 0]

\* what one call of animate observes and does
animate(fc0, now, last, m, pts, c, r) ==
    LET fc == fc0 + 1
        scrolling == Scrolling(now, last)
        ran == runsPass(fc, scrolling)
    IN  [frameCount |-> fc,
         elapsed |-> now - last,
         scrolling |-> scrolling,
         ran |-> ran,
         repel |-> ran /\ Len(pts) > 0 /\ repels(m),
         halo |-> ran /\ drawsHalo(m),
         seen |-> IF ran THEN [n |-> Len(pts), cols |-> c, rows |-> r]
                         ELSE NothingSeen,
         requested |-> rerequest(ran)]

NoPass == [frameCount |-> 0, elapsed |-> 0, scrolling |-> FALSE, ran |-> FALSE,
           repel |-> FALSE, halo |-> FALSE, seen |-> NothingSeen, requested |-> 0]

\* window of consecutive animate calls kept in trace
TraceLen == ScrollSkip + 1

Push(tr, e) == IF Len(tr) < TraceLen THEN Append(tr, e) ELSE Append(Tail(tr), e)

---------------------------------------------------------------------------
(* Start-up: the body of the IIFE (lines 3-201) *)

\* mutant: no guard
neverReturnsEarly(c) == FALSE

\* line 5: if (!canvas) return
returnsEarly(c) == ~c

\* lines 20-26
resize(w, h) ==
    LET c == colCount(w)
        r == rowCount(h)
    IN  [width |-> w, height |-> h, cols |-> c, rows |-> r, points |-> initPoints(c, r)]

\* lines 164-172
AllListeners == {"resize", "mousemove", "mouseout", "mouseleave", "scroll"}

NoPointer == [kind |-> "none", clientX |-> 0, clientY |-> 0, left |-> 0, top |-> 0]
NoClick == [kind |-> "none", before |-> FALSE]
NoScroll == [live |-> FALSE, fc0 |-> 0, calls |-> <<>>]

Startup(Sizes) ==
    /\ canvas \in BOOLEAN
    /\ menuEls \in BOOLEAN
    /\ clock = StartTime
    /\ menuOpen \in (IF menuEls THEN BOOLEAN ELSE {FALSE})
    /\ ariaExpanded = "unset"
    /\ ariaHidden = "unset"
    /\ mouse = [x |-> Null, y |-> Null]       \* line 15
    /\ lastScrollTime = 0                     \* line 169
    /\ lastPointer = NoPointer
    /\ lastClick = NoClick
    /\ sinceScroll = NoScroll
    /\ before = <<>>
    /\ jitter = <<>>
    /\ IF returnsEarly(canvas)
       THEN \* line 5 returns: nothing below it runs
            /\ width = 0 /\ height = 0 /\ cols = 0 /\ rows = 0 /\ points = <<>>
            /\ frameCount = 0
            /\ listeners = {}
            /\ rafPending = 0
            /\ error = FALSE
            /\ menuWired = FALSE
            /\ pass = NoPass
            /\ trace = <<>>
       ELSE IF ~canvas
       THEN \* line 6: canvas.getContext on null throws a TypeError
            /\ width = 0 /\ height = 0 /\ cols = 0 /\ rows = 0 /\ points = <<>>
            /\ frameCount = 0
            /\ listeners = {}
            /\ rafPending = 0
            /\ error = TRUE
            /\ menuWired = FALSE
            /\ pass = NoPass
            /\ trace = <<>>
       ELSE \E v \in Sizes :
            LET g == resize(v[1], v[2])                                 \* line 177
                a == animate(0, clock, 0, [x |-> Null, y |-> Null],
                             g.points, g.cols, g.rows)             \* line 178
            IN  /\ width = g.width /\ height = g.height
                /\ cols = g.cols /\ rows = g.rows /\ points = g.points
                /\ frameCount = a.frameCount
                /\ listeners = AllListeners
                /\ rafPending = a.requested
                /\ error = FALSE
                /\ menuWired = menuEls                             \* line 185
                /\ pass = a
                /\ trace = <<[scrolling |-> a.scrolling, ran |-> a.ran]>>

---------------------------------------------------------------------------
(* Events *)

\* the window is resized to w x h; the handler is resize (line 164)
Resize(w, h) ==
    /\ IF "resize" \in listeners
       THEN LET g == resize(w, h)
            IN  /\ width' = g.width /\ height' = g.height
                /\ cols' = g.cols /\ rows' = g.rows /\ points' = g.points
       ELSE UNCHANGED gridVars
    /\ pass' = NoPass
    /\ UNCHANGED <<canvas, menuEls, clock, mouse, lastScrollTime, frameCount, listeners,
                   rafPending, error, trace, sinceScroll, lastPointer>>
    /\ UNCHANGED menuVars
    /\ UNCHANGED physVars

\* a mousemove event e arrives while the canvas is at rect; the handler is onMove (line 165)
MouseMove(e, rect) ==
    /\ mouse' = IF "mousemove" \in listeners THEN onMove(e, rect) ELSE mouse
    /\ lastPointer' = [kind |-> "move", clientX |-> e.clientX, clientY |-> e.clientY,
                       left |-> rect.left, top |-> rect.top]
    /\ pass' = NoPass
    /\ UNCHANGED <<canvas, menuEls, clock, lastScrollTime, frameCount, listeners,
                   rafPending, error, trace, sinceScroll>>
    /\ UNCHANGED gridVars
    /\ UNCHANGED menuVars
    /\ UNCHANGED physVars

\* a mouseout or mouseleave event arrives; the handler of both is onLeave (lines 166-167)
MouseLeave(type) ==
    /\ mouse' = IF type \in listeners THEN onLeave ELSE mouse
    /\ lastPointer' = [NoPointer EXCEPT !.kind = "leave"]
    /\ pass' = NoPass
    /\ UNCHANGED <<canvas, menuEls, clock, lastScrollTime, frameCount, listeners,
                   rafPending, error, trace, sinceScroll>>
    /\ UNCHANGED gridVars
    /\ UNCHANGED menuVars
    /\ UNCHANGED physVars

\* a scroll event arrives; the handler is the arrow function of lines 170-172
Scroll ==
    /\ lastScrollTime' = IF "scroll" \in listeners THEN clock ELSE lastScrollTime
    /\ sinceScroll' = [live |-> TRUE, fc0 |-> frameCount, calls |-> <<>>]
    /\ pass' = NoPass
    /\ UNCHANGED <<canvas, menuEls, clock, mouse, frameCount, listeners,
                   rafPending, error, trace, lastPointer>>
    /\ UNCHANGED gridVars
    /\ UNCHANGED menuVars
    /\ UNCHANGED physVars

\* time passes
Tick ==
    /\ clock + TickStep <= MaxTime
    /\ clock' = clock + TickStep
    /\ pass' = NoPass
    /\ UNCHANGED <<canvas, menuEls, trace, sinceScroll, lastPointer>>
    /\ UNCHANGED engineVars
    /\ UNCHANGED menuVars
    /\ UNCHANGED physVars

\* animate (lines 150-161), apart from what update does to the points
AnimateBody ==
    /\ rafPending > 0
    /\ frameCount < MaxFrames
    /\ LET a == animate(frameCount, clock, lastScrollTime, mouse, points, cols, rows)
       IN  /\ frameCount' = a.frameCount
           /\ rafPending' = rafPending - 1 + a.requested
           /\ pass' = a
           /\ trace' = Push(trace, [scrolling |-> a.scrolling, ran |-> a.ran])
           /\ sinceScroll' =
                IF ~sinceScroll.live THEN sinceScroll
                ELSE IF ~a.scrolling \/ Len(sinceScroll.calls) = TraceLen THEN NoScroll
                ELSE [sinceScroll EXCEPT
                        !.calls = Append(@, [ran |-> a.ran, requested |-> a.requested])]
    /\ UNCHANGED <<canvas, menuEls, clock, mouse, lastScrollTime, listeners, error,
                   lastPointer, width, height, cols, rows>>
    /\ UNCHANGED menuVars

\* the host fires a pending animation-frame callback; the points of the grid
\* model carry no position, so update leaves them as they are
Animate ==
    /\ AnimateBody
    /\ UNCHANGED <<points, before, jitter>>

\* the same callback over points that carry position and velocity: a pass
\* runs update (line 157), which draws rx and ry from Math.random(). One
\* update is taken from each sampled state, which keeps the rationals exact.
AnimateNum(rx, ry) ==
    /\ before = <<>>
    /\ AnimateBody
    /\ IF pass'.ran
       THEN /\ points' = update(points, mouse, rx, ry)
            /\ before' = points
            /\ jitter' = <<rx, ry>>
       ELSE UNCHANGED <<points, before, jitter>>

---------------------------------------------------------------------------
(* Mobile menu (lines 180-201) *)

\* line 187: classList.toggle('open') returns whether the class is now present
classToggle(open) == ~open

\* a click on .mobile-toggle; the handler is the arrow function of lines 186-190
ToggleClick ==
    /\ menuEls
    /\ lastClick' = [kind |-> "toggle", before |-> menuOpen]
    /\ IF menuWired
       THEN LET open == classToggle(menuOpen)
            IN  /\ menuOpen' = open
                /\ ariaExpanded' = IF open THEN "true" ELSE "false"
                /\ ariaHidden' = IF open THEN "false" ELSE "true"
       ELSE UNCHANGED <<menuOpen, ariaExpanded, ariaHidden>>
    /\ pass' = NoPass
    /\ UNCHANGED <<canvas, menuEls, clock, menuWired, trace, sinceScroll, lastPointer>>
    /\ UNCHANGED engineVars
    /\ UNCHANGED physVars

\* a click on a link of the drawer; the handler is the arrow function of lines 192-196
LinkClick ==
    /\ menuEls
    /\ lastClick' = [kind |-> "link", before |-> menuOpen]
    /\ IF menuWired
       THEN /\ menuOpen' = FALSE
            /\ ariaExpanded' = "false"
            /\ ariaHidden' = "true"
       ELSE UNCHANGED <<menuOpen, ariaExpanded, ariaHidden>>
    /\ pass' = NoPass
    /\ UNCHANGED <<canvas, menuEls, clock, menuWired, trace, sinceScroll, lastPointer>>
    /\ UNCHANGED engineVars
    /\ UNCHANGED physVars

---------------------------------------------------------------------------

Init == Startup(Viewports)

Next ==
    \/ \E v \in Viewports : Resize(v[1], v[2])
    \/ \E e \in PointerEvents, rect \in SurfaceOrigins : MouseMove(e, rect)
    \/ \E type \in {"mouseout", "mouseleave"} : MouseLeave(type)
    \/ Scroll
    \/ Tick
    \/ Animate
    \/ ToggleClick
    \/ LinkClick

Spec == Init /\ [][Next]_vars

\* the engine's events, with a host that fires every pending animation-frame
\* callback
LoopNext ==
    \/ \E v \in Viewports : Resize(v[1], v[2])
    \/ \E e \in PointerEvents, rect \in SurfaceOrigins : MouseMove(e, rect)
    \/ \E type \in {"mouseout", "mouseleave"} : MouseLeave(type)
    \/ Scroll
    \/ Tick
    \/ Animate

FairSpec == Init /\ [][LoopNext]_vars /\ WF_vars(Animate)

\* the grid alone: resizes and frames, over more viewports
GridInit == Startup(GridViewports)

GridNext ==
    \/ \E v \in GridViewports : Resize(v[1], v[2])
    \/ Animate

GridSpec == GridInit /\ [][GridNext]_vars

\* the frame scheduler alone: frames, scroll events and time
FrameNext ==
    \/ Scroll
    \/ Tick
    \/ Animate

FrameSpec == Init /\ [][FrameNext]_vars

\* the physics of one point: a running engine on a 0 x 0 viewport (a grid of
\* one point), sampled at a point created by lines 33-45 from the draws r and
\* then displaced by (dx, dy), with the pointer absent or at an integer
\* position whose distance to the point is rational
RestDraws == {Half, R(3, 4)}
Displacements == {I(0), R(1, 50), R(-1, 100), R(-5, 2)}
JitterDraws == {<<Half, Half>>, <<R(0, 4), R(3, 4)>>}
PhysPointers == {[x |-> Null, y |-> Null]} \cup
                {[x |-> Num(a), y |-> Num(b)] : a \in {0, 3, maxDist}, b \in {0, 4}}

PhysInit ==
    /\ canvas = TRUE
    /\ menuEls = FALSE
    /\ clock = StartTime
    /\ width = 0 /\ height = 0 /\ cols = colCount(0) /\ rows = rowCount(0)
    /\ \E r1 \in RestDraws, r3 \in Randoms, r4 \in Randoms,
          dx \in Displacements, dy \in Displacements, m \in PhysPointers :
          LET p0 == NewPointNum(0, 0, r1, Half, r3, r4)
              p == [p0 EXCEPT !.x = RAdd(@, dx), !.y = RAdd(@, dy)]
              ex == RSub(RAdd(p.x, p.vx), I(m.x[1]))
              ey == RSub(RAdd(p.y, p.vy), I(m.y[1]))
          IN  /\ repels(m) => IsSquare(RAdd(RMul(ex, ex), RMul(ey, ey)))
              /\ points = <<p>>
              /\ mouse = m
    /\ lastScrollTime = 0
    /\ frameCount = 1
    /\ listeners = AllListeners
    /\ rafPending = 1
    /\ error = FALSE
    /\ menuWired = FALSE /\ menuOpen = FALSE
    /\ ariaExpanded = "unset" /\ ariaHidden = "unset"
    /\ pass = NoPass
    /\ trace = <<>>
    /\ sinceScroll = NoScroll
    /\ lastPointer = NoPointer
    /\ lastClick = NoClick
    /\ before = <<>>
    /\ jitter = <<>>

PhysNext == \E j \in JitterDraws : AnimateNum(j[1], j[2])

PhysSpec == PhysInit /\ [][PhysNext]_vars

---------------------------------------------------------------------------
(* Claims *)

\* the edges one draw pass over the current grid considers
Edges == drawEdges(points, cols, rows, 0)

\* C1: after the initial build and after any resizes interleaved with frames,
\* cols = ceil(width/100)+1, rows = ceil(height/100)+1, the grid holds exactly
\* cols*rows points, the point at index i*rows+j has (col,row) = (i,j) (800x600
\* gives 9x7 = 63 points), and a frame pass sees a grid of cols*rows points.
C1_GridMatchesViewport ==
    canvas =>
        /\ (cols - 1) * 100 >= width /\ (cols - 2) * 100 < width
        /\ (rows - 1) * 100 >= height /\ (rows - 2) * 100 < height
        /\ Len(points) = cols * rows
        /\ \A i \in 0..(cols - 1), j \in 0..(rows - 1) :
              /\ points[i * rows + j + 1].col = i
              /\ points[i * rows + j + 1].row = j
        /\ (width = 800 /\ height = 600) => (cols = 9 /\ rows = 7 /\ Len(points) = 63)
        /\ pass.ran => /\ pass.seen.n = pass.seen.cols * pass.seen.rows
                       /\ pass.seen.cols = cols /\ pass.seen.rows = rows

C1_Witness ==
    /\ canvas /\ pass.ran /\ pass.frameCount >= 3
    /\ width = 800 /\ height = 600 /\ pass.seen.n = 63

\* C2: a frame callback that is not scrolling (now - lastScrollTime >= 160)
\* performs the pass; of four consecutive callbacks that are all scrolling,
\* exactly one performs the pass and three skip it.
C2_ScrollThrottle ==
    /\ (pass.frameCount > 0 /\ pass.elapsed >= 160) => pass.ran
    /\ \A k \in 1..Len(trace) : ~trace[k].scrolling => trace[k].ran
    /\ (Len(trace) = 4 /\ \A k \in 1..4 : trace[k].scrolling)
          => Cardinality({k \in 1..4 : trace[k].ran}) = 1

C2_Witness ==
    /\ Len(trace) = 4
    /\ \A k \in 1..4 : trace[k].scrolling
    /\ trace[2].ran
    /\ pass.frameCount > 0 /\ pass.elapsed > 0

\* C3 as stated: after a scroll event, with the following callbacks all within
\* 160ms of it, the first 3 callbacks skip the pass and only the 4th performs
\* it, whatever the frame counter was; each re-requests the next callback.
C3_FourthAfterScroll ==
    sinceScroll.live =>
        \A k \in 1..Len(sinceScroll.calls) :
            /\ sinceScroll.calls[k].requested = 1
            /\ sinceScroll.calls[k].ran <=> (k = 4)

\* C3 amended: after a scroll event, with the following callbacks all within
\* 160ms of it, the k-th callback performs the pass exactly when the frame
\* counter it reaches (its value at the scroll plus k) is divisible by 4, so
\* exactly one of the first 4 performs it; each re-requests the next callback.
C3_CadenceFollowsCounter ==
    sinceScroll.live =>
        /\ \A k \in 1..Len(sinceScroll.calls) :
              /\ sinceScroll.calls[k].requested = 1
              /\ sinceScroll.calls[k].ran <=> ((sinceScroll.fc0 + k) % 4 = 0)
        /\ Len(sinceScroll.calls) = 4
              => Cardinality({k \in 1..4 : sinceScroll.calls[k].ran}) = 1

C3_Witness ==
    /\ sinceScroll.live
    /\ Len(sinceScroll.calls) = 4
    /\ sinceScroll.calls[4].ran
    /\ lastScrollTime > 0

\* C4: once the engine has started, exactly one frame callback is pending in
\* every state; each callback adds exactly 1 to the frame counter and requests
\* exactly one successor, and no event handler requests one or touches the
\* counter; if the host fires every pending callback, the counter reaches the
\* count MaxFrames the model stops at.
C4_OneCallbackPending ==
    /\ [](canvas => rafPending = 1)
    /\ [][pass' # NoPass => /\ frameCount' = frameCount + 1
                            /\ pass'.requested = 1
                            /\ rafPending' = rafPending]_vars
    /\ [][pass' = NoPass => /\ frameCount' = frameCount
                            /\ rafPending' = rafPending]_vars
    /\ canvas => <>(frameCount = MaxFrames)

C4_Witness ==
    /\ canvas /\ rafPending = 1
    /\ frameCount > 4
    /\ pass.frameCount = frameCount /\ ~pass.ran
    /\ lastPointer.kind = "leave" /\ lastScrollTime > 0 /\ width = MaxWidth

C6_PointerState ==
    canvas =>
        /\ (mouse.x = Null) <=> (mouse.y = Null)
        /\ lastPointer.kind = "move" =>
              /\ mouse.x = <<lastPointer.clientX - lastPointer.left>>
              /\ mouse.y = <<lastPointer.clientY - lastPointer.top>>
        /\ lastPointer.kind # "move" => (mouse.x = Null /\ mouse.y = Null)
        /\ pass.ran => /\ pass.repel <=> (lastPointer.kind = "move")
                       /\ pass.halo <=> (lastPointer.kind = "move")

C6_Witness ==
    /\ canvas /\ pass.ran /\ pass.repel /\ pass.halo
    /\ mouse.x = <<MaxClientX - OriginLeft>>
    /\ lastScrollTime > 0 /\ width = MaxWidth /\ frameCount > 4

\* C7: with the canvas absent the engine does nothing and does not fail: no
\* grid, no listener, no frame callback, no error, whatever events arrive.
C7_AbsentCanvasNoOp ==
    ~canvas =>
        /\ points = <<>> /\ cols = 0 /\ rows = 0
        /\ listeners = {}
        /\ rafPending = 0 /\ frameCount = 0 /\ pass = NoPass
        /\ mouse = [x |-> Null, y |-> Null] /\ lastScrollTime = 0
        /\ ~error

C7_Witness ==
    /\ ~canvas /\ ~error
    /\ lastPointer.kind = "move" /\ sinceScroll.live /\ clock > StartTime

\* C10: with the three menu elements present, after at least one click: a
\* toggle click has flipped the open state, a link click has left it closed,
\* aria-expanded is 'true' exactly when the menu is open and aria-hidden is
\* 'true' exactly when it is closed.
C10_MenuState ==
    (menuEls /\ lastClick.kind # "none") =>
        /\ lastClick.kind = "toggle" => (menuOpen = ~lastClick.before)
        /\ lastClick.kind = "link" => ~menuOpen
        /\ ariaExpanded = (IF menuOpen THEN "true" ELSE "false")
        /\ ariaHidden = (IF menuOpen THEN "false" ELSE "true")

\* the sampled point after and before the last update, and its displacement
\* |x-ox| + |y-oy|
Pt == points[1]
Was == before[1]
disp(p) == RAdd(RAbs(RSub(p.x, p.ox)), RAbs(RSub(p.y, p.oy)))
Updated == before # <<>>
NoJitter == jitter = <<Half, Half>>

\* C8 as stated: with the pointer absent and zero jitter, each tick strictly
\* decreases |x-ox|+|y-oy|.
C8_StrictDecrease ==
    (Updated /\ mouse.x = Null /\ NoJitter) => RLt(disp(Pt), disp(Was))

\* C8 amended: with the pointer absent and zero jitter, a tick moves the point
\* by exactly its velocity and then adds 0.00012 * (rest - new position) to the
\* velocity, a pull toward the rest position that acts on the velocity only;
\* |x-ox|+|y-oy| decreases in a tick only if the velocity already pointed
\* toward the rest position on some axis, and from the rest position it grows
\* to |vx|+|vy|.
C8_SpringPullsVelocity ==
    (Updated /\ mouse.x = Null /\ NoJitter) =>
        /\ RSub(Pt.x, Was.x) = Was.vx /\ RSub(Pt.y, Was.y) = Was.vy
        /\ Pt.ox = Was.ox /\ Pt.oy = Was.oy
        /\ RMul(RSub(Pt.vx, Was.vx), I(100000)) = RMul(RSub(Pt.ox, Pt.x), I(12))
        /\ RMul(RSub(Pt.vy, Was.vy), I(100000)) = RMul(RSub(Pt.oy, Pt.y), I(12))
        /\ RSign(RSub(Pt.vx, Was.vx)) = RSign(RSub(Pt.ox, Pt.x))
        /\ RSign(RSub(Pt.vy, Was.vy)) = RSign(RSub(Pt.oy, Pt.y))
        /\ RLt(disp(Pt), disp(Was)) =>
              \/ RSign(Was.vx) * RSign(RSub(Was.x, Was.ox)) < 0
              \/ RSign(Was.vy) * RSign(RSub(Was.y, Was.oy)) < 0
        /\ (Was.x = Was.ox /\ Was.y = Was.oy) =>
              disp(Pt) = RAdd(RAbs(Was.vx), RAbs(Was.vy))

C8_Witness ==
    /\ Updated /\ mouse.x = Null /\ NoJitter
    /\ RLt(disp(Pt), disp(Was))
    /\ Was.vx # I(0) /\ Was.vy # I(0)

\* where the point is when update computes its distance to the pointer, and
\* how far the repulsion then moved it
AtX == RAdd(Was.x, Was.vx)
AtY == RAdd(Was.y, Was.vy)
PushX == RSub(Pt.x, AtX)
PushY == RSub(Pt.y, AtY)
PointerOnPoint ==
    /\ Updated /\ mouse.x # Null
    /\ AtX = I(mouse.x[1]) /\ AtY = I(mouse.y[1])

\* C9 as stated: with the pointer exactly on the point (dist = 0, taken as 1)
\* the tick raises no error, computes force = (180-1)/180*0.6 and moves the
\* point by a finite repulsion displacement of about 0.537 units.
C9_PushedFromPointer ==
    PointerOnPoint =>
        LET f == repulsion(AtX, AtY, I(mouse.x[1]), I(mouse.y[1]))
            sq == RAdd(RMul(PushX, PushX), RMul(PushY, PushY))
        IN  /\ f.force = R(179 * 6, 180 * 10)
            /\ RLt(R(53 * 53, 100 * 100), sq) /\ RLt(sq, R(54 * 54, 100 * 100))

\* C9 amended: with the pointer exactly on the point (dist = 0, taken as 1)
\* the tick raises no error and computes force = (180-1)/180*0.6, but the
\* repulsion displacement is (dx/1, dy/1) * force * 0.9 with dx = dy = 0: the
\* point is not moved by the repulsion at all, and its position stays finite.
C9_NoPushOnPointer ==
    PointerOnPoint =>
        LET f == repulsion(AtX, AtY, I(mouse.x[1]), I(mouse.y[1]))
        IN  /\ f.dist = I(1) /\ f.applies
            /\ f.force = R(179 * 6, 180 * 10)
            /\ Finite(Pt.x) /\ Finite(Pt.y)
            /\ PushX = I(0) /\ PushY = I(0)

C9_Witness ==
    /\ PointerOnPoint
    /\ Was.vx # I(0)
    /\ Finite(Pt.x) /\ Pt.x = I(mouse.x[1])

====
